---- MODULE Spec2Model ----
(***************************************************************************)
(* notifica (src/src/lib.rs): one public operation, notify(title, body),  *)
(* dispatched at build time to the Linux, macOS or Windows backend.        *)
(*                                                                         *)
(* The native notification libraries (notify_rust, mac_notification_sys,   *)
(* winrt) are outside the crate.  Each native call is a step whose outcome *)
(* the environment chooses: it succeeds, it fails with a native error, or  *)
(* (winrt only) it succeeds with an absent object.  A native call that     *)
(* fails has no effect; a show/send that succeeds displays exactly the     *)
(* notification it was handed.                                             *)
(***************************************************************************)
EXTENDS Naturals, Sequences, FiniteSets

\* ---------------------------------------------------------------- bounds

\* Number of notify invocations of one process; they may overlap in time.
NumCalls == 2
\* Number of distinct native error values of each native error type.
NumErrs == 2
\* Longest text a native error's formatting produces, in letters.
MaxMsgLen == 2

Calls == 1..NumCalls
\* The (title, body) pairs the callers pass: the two texts of
\* examples/hello_world.rs in every combination.  The invocations take
\* consecutive pairs of this list, starting at a position chosen initially, so
\* that overlapping invocations carry different arguments.
Inputs ==
  << [title |-> "Hello", body |-> "World"], [title |-> "World", body |-> "Hello"],
     [title |-> "Hello", body |-> "Hello"], [title |-> "World", body |-> "World"] >>
Platforms == {"linux", "macos", "windows"}
\* Option::None.
None == "None"

\* ------------------------------------------------------ native error types

\* notify_rust::error::Error
LErrors == {[type |-> "LError", code |-> k] : k \in 1..NumErrs}
\* mac_notification_sys::error::ApplicationError
ApplicationErrors == {[type |-> "ApplicationError", code |-> k] : k \in 1..NumErrs}
\* mac_notification_sys::error::NotificationError
NotificationErrors == {[type |-> "NotificationError", code |-> k] : k \in 1..NumErrs}
\* winrt::Error
WErrors == {[type |-> "WError", code |-> k] : k \in 1..NumErrs}

\* ------------------------------------------------ error union, conversions

\* enum MacOsError { AppErr(ApplicationError), NotErr(NotificationError) }
AppErr(err) == [variant |-> "AppErr", err |-> err]
NotErr(err) == [variant |-> "NotErr", err |-> err]

\* impl From<ApplicationError> for MacOsError
MacOsErrorFromApplicationError(err) == AppErr(err)
\* impl From<NotificationError> for MacOsError
MacOsErrorFromNotificationError(err) == NotErr(err)

\* enum ErrorRepr { Linux(LError), MacOs(MacOsError), Windows(WError) }
ReprLinux(err) == [variant |-> "Linux", err |-> err]
ReprMacOs(err) == [variant |-> "MacOs", err |-> err]
ReprWindows(err) == [variant |-> "Windows", err |-> err]

\* impl From<ApplicationError> for ErrorRepr
FromApplicationError(err) == ReprMacOs(MacOsErrorFromApplicationError(err))
\* impl From<NotificationError> for ErrorRepr
FromNotificationError(err) == ReprMacOs(MacOsErrorFromNotificationError(err))

\* A mutant of FromLError: the conversion forgets which native error it got.
FromLErrorLossy(err) == ReprLinux([type |-> "LError", code |-> 1])

\* impl From<LError> for ErrorRepr
FromLError(err) == ReprLinux(err)
\* impl From<WError> for ErrorRepr
FromWError(err) == ReprWindows(err)

\* pub struct Error(ErrorRepr)
Error(repr) == [struct |-> "Error", repr |-> repr]

\* Result<(), Error> as the caller of notify sees it.  A panic unwinds out of
\* notify: the caller gets no value at all.
Pending == [tag |-> "Pending"]
Ok == [tag |-> "Ok"]
Err(e) == [tag |-> "Err", err |-> e]
Panic == [tag |-> "Panic"]

\* What a native call answers: a value, an absent value (winrt's
\* Result<Option<_>>), or a native error.
NativeOk == [tag |-> "ok"]
NativeNone == [tag |-> "none"]
NativeErr(e) == [tag |-> "err", err |-> e]

\* ------------------------------------------------------------------ state

VARIABLES
  platform,             \* CurrPlatform: the backend compiled in
  first,                \* the position in Inputs of the first invocation's arguments
  pc,                   \* pc[c]: where invocation c of notify stands
  msg_title, msg_body,  \* the arguments of invocation c
  result,               \* what invocation c gave its caller
  trace,                \* trace[c]: the calls invocation c has made, in order
  handle,               \* the value setup() produced for invocation c
  touched,              \* process-wide state invocation c has read or written
  shown,                \* the notifications the desktop has displayed, in order
  notification,         \* Linux: the notify_rust::Notification being built
  bundle,               \* macOS: the local `bundle`
  appIdentity,          \* macOS: the application identity of the process
  toast_xml,            \* Windows: the template document, one child list per slot
  toast_text_elements,  \* Windows: the node list of the "text" elements
  target,               \* Windows: the element item(i) returned
  node,                 \* Windows: the text node on its way into the document
  toast,                \* Windows: the ToastNotification object
  stage, native, fmt, repr, error, text   \* error rendering, see below

callVars == <<pc, msg_title, msg_body, result, trace, handle, touched>>
linuxVars == <<notification>>
macVars == <<bundle, appIdentity>>
winVars == <<toast_xml, toast_text_elements, target, node, toast>>
renderVars == <<stage, native, fmt, repr, error, text>>
vars == <<platform, first, callVars, shown, linuxVars, macVars, winVars, renderVars>>

\* ------------------------------------------------------- program order

\* Linux::notify: the builder chain, then show.
LinuxSteps == <<"build", "show">>

\* A mutant of MacOsSteps: the notification is sent before the identity is set.
MacOsStepsSendFirst == <<"send_notification", "get_bundle_identifier", "set_application">>

\* MacOs::notify: three statements.
MacOsSteps == <<"get_bundle_identifier", "set_application", "send_notification">>

\* Windows::notify: the native calls in evaluation order (the receiver of a
\* method call is evaluated before its arguments).
WindowsSteps ==
  << "get_template_content", "get_elements_by_tag_name",
     "item0", "create_text_node0", "query_interface0", "append_child0",
     "item1", "create_text_node1", "query_interface1", "append_child1",
     "create_toast_notification", "create_toast_notifier_with_id", "show" >>

\* type CurrPlatform = Windows | MacOs | Linux
StepsOf(p) ==
  CASE p = "linux" -> LinuxSteps
    [] p = "macos" -> MacOsSteps
    [] p = "windows" -> WindowsSteps

IndexOf(steps, s) == CHOOSE i \in 1..Len(steps) : steps[i] = s

\* The step-specific pc labels of the two slots of the ToastText02 template.
ItemPc(i) == IF i = 0 THEN "item0" ELSE "item1"
CreateTextNodePc(i) == IF i = 0 THEN "create_text_node0" ELSE "create_text_node1"
QueryInterfacePc(i) == IF i = 0 THEN "query_interface0" ELSE "query_interface1"
AppendChildPc(i) == IF i = 0 THEN "append_child0" ELSE "append_child1"

\* ------------------------------------------------------------ bookkeeping

\* Invocation c made the call `call` with `args` and got the native result r.
Log(c, call, args, r) ==
  trace' = [trace EXCEPT ![c] = Append(@, [call |-> call, args |-> args, outcome |-> r])]

\* The invocation ends: `return`, `?` on an Err, or a panic.
Return(c, r) ==
  /\ result' = [result EXCEPT ![c] = r]
  /\ pc' = [pc EXCEPT ![c] = "done"]

\* The statement at step s completed: go on to the next one, or to the final
\* Ok(()) of the backend's notify and of the public notify.
Advance(c, s) ==
  LET steps == StepsOf(platform)
      i == IndexOf(steps, s)
  IN  IF i = Len(steps)
        THEN Return(c, Ok)
        ELSE /\ pc' = [pc EXCEPT ![c] = steps[i + 1]]
             /\ UNCHANGED result

Touch(c, loc, mode) ==
  touched' = [touched EXCEPT ![c] = @ \cup {[loc |-> loc, mode |-> mode]}]

\* --------------------------------------------------------------- Init

RenderIdle ==
  /\ stage = "off"
  /\ native = None /\ fmt = None /\ repr = None /\ error = None /\ text = None

CallsIdle ==
  /\ pc = [c \in Calls |-> "idle"]
  /\ msg_title = [c \in Calls |-> None]
  /\ msg_body = [c \in Calls |-> None]
  /\ result = [c \in Calls |-> Pending]
  /\ trace = [c \in Calls |-> << >>]
  /\ handle = [c \in Calls |-> None]
  /\ touched = [c \in Calls |-> {}]
  /\ shown = << >>
  /\ notification = [c \in Calls |-> None]
  /\ bundle = [c \in Calls |-> None]
  /\ appIdentity = None
  /\ toast_xml = [c \in Calls |-> None]
  /\ toast_text_elements = [c \in Calls |-> None]
  /\ target = [c \in Calls |-> None]
  /\ node = [c \in Calls |-> None]
  /\ toast = [c \in Calls |-> None]

Init ==
  /\ platform \in Platforms
  /\ first \in 1..Len(Inputs)
  /\ CallsIdle
  /\ RenderIdle

\* ------------------------------------------------------ pub fn notify

\* The arguments of invocation c.
InputOf(c) == Inputs[((first + c - 2) % Len(Inputs)) + 1]

\* A caller invokes notify(msg_title, msg_body).
Call(c) ==
  /\ pc[c] = "idle"
  /\ msg_title' = [msg_title EXCEPT ![c] = InputOf(c).title]
  /\ msg_body' = [msg_body EXCEPT ![c] = InputOf(c).body]
  /\ pc' = [pc EXCEPT ![c] = "setup"]
  /\ UNCHANGED <<platform, first, result, trace, handle, touched, shown,
                 linuxVars, macVars, winVars, renderVars>>

\* A mutant of Setup: the value is bound and kept (`let h = setup();`) and
\* nothing ever releases it.
SetupKept(c) ==
  /\ pc[c] = "setup"
  /\ handle' = [handle EXCEPT ![c] = "held"]
  /\ Log(c, "setup", << >>, NativeOk)
  /\ pc' = [pc EXCEPT ![c] = StepsOf(platform)[1]]
  /\ UNCHANGED <<platform, first, msg_title, msg_body, result, touched, shown,
                 linuxVars, macVars, winVars, renderVars>>

\* `CurrPlatform::setup();` -- an expression statement: setup() returns the
\* unit struct of the backend and the temporary is dropped when the statement
\* ends, before the backend's notify is entered.  The Platform trait has no
\* teardown.
Setup(c) ==
  /\ pc[c] = "setup"
  /\ handle' = [handle EXCEPT ![c] = "dropped"]
  /\ Log(c, "setup", << >>, NativeOk)
  /\ pc' = [pc EXCEPT ![c] = StepsOf(platform)[1]]
  /\ UNCHANGED <<platform, first, msg_title, msg_body, result, touched, shown,
                 linuxVars, macVars, winVars, renderVars>>

\* `.map_err(Error)?` applied to the Err the backend's `?` produced.
MapErr(r) == Error(r)

\* ------------------------------------------------------------- Linux

\* notify_rust::Notification::new().summary(msg_title).body(msg_body)
LinuxNotification(t, b) == [summary |-> t, body |-> b]

LinuxBuild(c) ==
  /\ platform = "linux" /\ pc[c] = "build"
  /\ notification' = [notification EXCEPT ![c] = LinuxNotification(msg_title[c], msg_body[c])]
  /\ Log(c, "build", <<msg_title[c], msg_body[c]>>, NativeOk)
  /\ Advance(c, "build")
  /\ UNCHANGED <<platform, first, msg_title, msg_body, handle, touched, shown,
                 macVars, winVars, renderVars>>

\* `.show()?;` then `Ok(())`.
LinuxShow(c) ==
  /\ platform = "linux" /\ pc[c] = "show"
  /\ \E r \in {NativeOk} \cup {NativeErr(e) : e \in LErrors} :
       /\ Log(c, "show", <<notification[c].summary, notification[c].body>>, r)
       /\ IF r.tag = "ok"
            THEN /\ shown' = Append(shown, [by |-> c, title |-> notification[c].summary,
                                            body |-> notification[c].body])
                 /\ Advance(c, "show")
            ELSE /\ shown' = shown
                 /\ Return(c, Err(MapErr(FromLError(r.err))))
  /\ UNCHANGED <<platform, first, msg_title, msg_body, handle, touched,
                 linuxVars, macVars, winVars, renderVars>>

\* ------------------------------------------------------------- macOS

\* The host application whose identity the process borrows.
HostApplication == "Script Editor"

\* What mac_notification_sys::get_bundle_identifier answers for an
\* application name when the lookup succeeds: a fixed string per application.
BundleIdentifier(app) ==
  IF app = "Script Editor" THEN "com.apple.ScriptEditor2" ELSE "com.apple.Finder"

\* A mutant of MacNotification: title and body exchanged.
MacNotificationSwapped(t, b) == [title |-> b, subtitle |-> None, message |-> t, sound |-> None]

\* The arguments of send_notification(msg_title, &None, msg_body, &None):
\* title, subtitle, message, sound.
MacNotification(t, b) == [title |-> t, subtitle |-> None, message |-> b, sound |-> None]

\* `let bundle = get_bundle_identifier("Script Editor").unwrap();`
MacGetBundleIdentifier(c) ==
  /\ platform = "macos" /\ pc[c] = "get_bundle_identifier"
  /\ \E r \in {NativeOk} \cup {NativeErr(e) : e \in ApplicationErrors} :
       /\ Log(c, "get_bundle_identifier", <<HostApplication>>, r)
       /\ IF r.tag = "ok"
            THEN /\ bundle' = [bundle EXCEPT ![c] = BundleIdentifier(HostApplication)]
                 /\ Advance(c, "get_bundle_identifier")
            ELSE /\ bundle' = bundle
                 /\ Return(c, Panic)
  /\ UNCHANGED <<platform, first, msg_title, msg_body, handle, touched, shown, appIdentity,
                 linuxVars, winVars, renderVars>>

\* A mutant of MacSetApplication: the wrong string is installed
\* (`set_application(msg_title)`).
MacSetApplicationWrongArg(c) ==
  /\ platform = "macos" /\ pc[c] = "set_application"
  /\ \E r \in {NativeOk} \cup {NativeErr(e) : e \in ApplicationErrors} :
       /\ Log(c, "set_application", <<msg_title[c]>>, r)
       /\ IF r.tag = "ok"
            THEN /\ appIdentity' = msg_title[c]
                 /\ Touch(c, "appIdentity", "write")
                 /\ Advance(c, "set_application")
            ELSE /\ appIdentity' = appIdentity
                 /\ touched' = touched
                 /\ Return(c, Panic)
  /\ UNCHANGED <<platform, first, msg_title, msg_body, handle, shown, bundle,
                 linuxVars, winVars, renderVars>>

\* `set_application(&bundle).unwrap();` -- the identity is installed for the
\* whole process, not for this invocation.
MacSetApplication(c) ==
  /\ platform = "macos" /\ pc[c] = "set_application"
  /\ \E r \in {NativeOk} \cup {NativeErr(e) : e \in ApplicationErrors} :
       /\ Log(c, "set_application", <<bundle[c]>>, r)
       /\ IF r.tag = "ok"
            THEN /\ appIdentity' = bundle[c]
                 /\ Touch(c, "appIdentity", "write")
                 /\ Advance(c, "set_application")
            ELSE /\ appIdentity' = appIdentity
                 /\ touched' = touched
                 /\ Return(c, Panic)
  /\ UNCHANGED <<platform, first, msg_title, msg_body, handle, shown, bundle,
                 linuxVars, winVars, renderVars>>

\* `send_notification(msg_title, &None, msg_body, &None).unwrap();` then
\* `Ok(())`.  The notification is posted under the identity the process has
\* at that moment.
MacSendNotification(c) ==
  /\ platform = "macos" /\ pc[c] = "send_notification"
  /\ LET n == MacNotification(msg_title[c], msg_body[c]) IN
     \E r \in {NativeOk} \cup {NativeErr(e) : e \in NotificationErrors} :
       /\ Log(c, "send_notification", <<n.title, n.subtitle, n.message, n.sound>>, r)
       /\ Touch(c, "appIdentity", "read")
       /\ IF r.tag = "ok"
            THEN /\ shown' = Append(shown, [by |-> c, title |-> n.title, body |-> n.message,
                                            subtitle |-> n.subtitle, sound |-> n.sound,
                                            app |-> appIdentity])
                 /\ Advance(c, "send_notification")
            ELSE /\ shown' = shown
                 /\ Return(c, Panic)
  /\ UNCHANGED <<platform, first, msg_title, msg_body, handle, macVars,
                 linuxVars, winVars, renderVars>>

\* ------------------------------------------------------------ Windows

\* The three answers of a winrt call that returns Result<Option<_>>, and the
\* two of one whose value the code does not unwrap.
WinOptResults == {NativeOk, NativeNone} \cup {NativeErr(e) : e \in WErrors}
WinResults == {NativeOk} \cup {NativeErr(e) : e \in WErrors}

\* The notifier id the toast is shown under.
NotifierId == "{1AC14E77-02E7-4E5D-B744-2EB1AE5198B7}\\WindowsPowerShell\\v1.0\\powershell.exe"

\* ToastTemplateType::ToastText02: two "text" elements, both empty.
ToastText02 == << << >>, << >> >>

\* A failed step of Windows::notify: `?` returns the native error converted
\* to ErrorRepr (and the public notify wraps it), `.unwrap()` on an absent
\* value panics.
WinFail(c, r) ==
  IF r.tag = "err"
    THEN Return(c, Err(MapErr(FromWError(r.err))))
    ELSE Return(c, Panic)

\* `ToastNotificationManager::get_template_content(ToastText02)?.unwrap()`
GetTemplateContent(c) ==
  /\ platform = "windows" /\ pc[c] = "get_template_content"
  /\ \E r \in WinOptResults :
       /\ Log(c, "get_template_content", <<"ToastText02">>, r)
       /\ IF r.tag = "ok"
            THEN /\ toast_xml' = [toast_xml EXCEPT ![c] = ToastText02]
                 /\ Advance(c, "get_template_content")
            ELSE /\ toast_xml' = toast_xml
                 /\ WinFail(c, r)
  /\ UNCHANGED <<platform, first, msg_title, msg_body, handle, touched, shown,
                 toast_text_elements, target, node, toast,
                 linuxVars, macVars, renderVars>>

\* `toast_xml.get_elements_by_tag_name("text")?.unwrap()`
GetElementsByTagName(c) ==
  /\ platform = "windows" /\ pc[c] = "get_elements_by_tag_name"
  /\ \E r \in WinOptResults :
       /\ Log(c, "get_elements_by_tag_name", <<"text">>, r)
       /\ IF r.tag = "ok"
            THEN /\ toast_text_elements' =
                      [toast_text_elements EXCEPT ![c] = [i \in 1..Len(toast_xml[c]) |-> i - 1]]
                 /\ Advance(c, "get_elements_by_tag_name")
            ELSE /\ toast_text_elements' = toast_text_elements
                 /\ WinFail(c, r)
  /\ UNCHANGED <<platform, first, msg_title, msg_body, handle, touched, shown,
                 toast_xml, target, node, toast,
                 linuxVars, macVars, renderVars>>

\* `toast_text_elements.item(i)?.unwrap()`, i = 0 for the title, 1 for the body
Item(c, i) ==
  /\ platform = "windows" /\ pc[c] = ItemPc(i)
  /\ \E r \in WinOptResults :
       /\ Log(c, "item", <<i>>, r)
       /\ IF r.tag = "ok"
            THEN /\ target' = [target EXCEPT ![c] = toast_text_elements[c][i + 1]]
                 /\ Advance(c, ItemPc(i))
            ELSE /\ target' = target
                 /\ WinFail(c, r)
  /\ UNCHANGED <<platform, first, msg_title, msg_body, handle, touched, shown,
                 toast_xml, toast_text_elements, node, toast,
                 linuxVars, macVars, renderVars>>

\* The caller's string that goes into slot i: msg_title into 0, msg_body into 1.
TextFor(c, i) == IF i = 0 THEN msg_title[c] ELSE msg_body[c]

\* `toast_xml.create_text_node(&FastHString::from(msg_title | msg_body))?.unwrap()`
CreateTextNode(c, i) ==
  /\ platform = "windows" /\ pc[c] = CreateTextNodePc(i)
  /\ \E r \in WinOptResults :
       /\ Log(c, "create_text_node", <<TextFor(c, i)>>, r)
       /\ IF r.tag = "ok"
            THEN /\ node' = [node EXCEPT ![c] = [interface |-> "XmlText", data |-> TextFor(c, i)]]
                 /\ Advance(c, CreateTextNodePc(i))
            ELSE /\ node' = node
                 /\ WinFail(c, r)
  /\ UNCHANGED <<platform, first, msg_title, msg_body, handle, touched, shown,
                 toast_xml, toast_text_elements, target, toast,
                 linuxVars, macVars, renderVars>>

\* `.query_interface::<IXmlNode>().unwrap()` -- an Option, no Result
QueryInterface(c, i) ==
  /\ platform = "windows" /\ pc[c] = QueryInterfacePc(i)
  /\ \E r \in {NativeOk, NativeNone} :
       /\ Log(c, "query_interface", <<"IXmlNode">>, r)
       /\ IF r.tag = "ok"
            THEN /\ node' = [node EXCEPT ![c] = [interface |-> "IXmlNode", data |-> node[c].data]]
                 /\ Advance(c, QueryInterfacePc(i))
            ELSE /\ node' = node
                 /\ WinFail(c, r)
  /\ UNCHANGED <<platform, first, msg_title, msg_body, handle, touched, shown,
                 toast_xml, toast_text_elements, target, toast,
                 linuxVars, macVars, renderVars>>

\* `<element>.append_child(&*<node>)?;` -- the value returned is not used
AppendChild(c, i) ==
  /\ platform = "windows" /\ pc[c] = AppendChildPc(i)
  /\ \E r \in WinResults :
       /\ Log(c, "append_child", <<target[c]>>, r)
       /\ IF r.tag = "ok"
            THEN /\ toast_xml' = [toast_xml EXCEPT ![c][target[c] + 1] = Append(@, node[c].data)]
                 /\ Advance(c, AppendChildPc(i))
            ELSE /\ toast_xml' = toast_xml
                 /\ WinFail(c, r)
  /\ UNCHANGED <<platform, first, msg_title, msg_body, handle, touched, shown,
                 toast_text_elements, target, node, toast,
                 linuxVars, macVars, renderVars>>

\* `let toast = ToastNotification::create_toast_notification(&*toast_xml)?;`
\* ToastText02 shows its first text element as the title line and its second
\* as the body line.
CreateToastNotification(c) ==
  /\ platform = "windows" /\ pc[c] = "create_toast_notification"
  /\ \E r \in WinResults :
       /\ Log(c, "create_toast_notification", << >>, r)
       /\ IF r.tag = "ok"
            THEN /\ toast' = [toast EXCEPT ![c] = [title |-> toast_xml[c][1], body |-> toast_xml[c][2]]]
                 /\ Advance(c, "create_toast_notification")
            ELSE /\ toast' = toast
                 /\ WinFail(c, r)
  /\ UNCHANGED <<platform, first, msg_title, msg_body, handle, touched, shown,
                 toast_xml, toast_text_elements, target, node,
                 linuxVars, macVars, renderVars>>

\* `ToastNotificationManager::create_toast_notifier_with_id(<id>)?.unwrap()`
CreateToastNotifierWithId(c) ==
  /\ platform = "windows" /\ pc[c] = "create_toast_notifier_with_id"
  /\ \E r \in WinOptResults :
       /\ Log(c, "create_toast_notifier_with_id", <<NotifierId>>, r)
       /\ IF r.tag = "ok"
            THEN Advance(c, "create_toast_notifier_with_id")
            ELSE WinFail(c, r)
  /\ UNCHANGED <<platform, first, msg_title, msg_body, handle, touched, shown,
                 winVars, linuxVars, macVars, renderVars>>

\* `.show(&*toast)?;` then `Ok(())`
WindowsShow(c) ==
  /\ platform = "windows" /\ pc[c] = "show"
  /\ \E r \in WinResults :
       /\ Log(c, "show", << >>, r)
       /\ IF r.tag = "ok"
            THEN /\ shown' = Append(shown, [by |-> c, title |-> toast[c].title,
                                            body |-> toast[c].body, notifier |-> NotifierId])
                 /\ Advance(c, "show")
            ELSE /\ shown' = shown
                 /\ WinFail(c, r)
  /\ UNCHANGED <<platform, first, msg_title, msg_body, handle, touched,
                 winVars, linuxVars, macVars, renderVars>>

\* ------------------------------------------------------- specification

Next ==
  \E c \in Calls :
    \/ Call(c)
    \/ Setup(c)
    \/ LinuxBuild(c)
    \/ LinuxShow(c)
    \/ MacGetBundleIdentifier(c)
    \/ MacSetApplication(c)
    \/ MacSendNotification(c)
    \/ GetTemplateContent(c)
    \/ GetElementsByTagName(c)
    \/ \E i \in {0, 1} : Item(c, i)
    \/ \E i \in {0, 1} : CreateTextNode(c, i)
    \/ \E i \in {0, 1} : QueryInterface(c, i)
    \/ \E i \in {0, 1} : AppendChild(c, i)
    \/ CreateToastNotification(c)
    \/ CreateToastNotifierWithId(c)
    \/ WindowsShow(c)

Spec == Init /\ [][Next]_vars

\* ----------------------------------------------------- error rendering
\* The conversions and Display impls as functions of a native error value:
\* From (what `?` applies), map_err(Error), then Display::fmt.  The native
\* error types are opaque; what their own Display ("{}") and Debug ("{:?}")
\* impls write is drawn from Texts.

Letters == {"X", "Y"}
Texts == UNION {[1..k -> Letters] : k \in 1..MaxMsgLen}

\* x occurs in s as a contiguous piece.
Contains(s, x) ==
  /\ Len(x) <= Len(s)
  /\ \E i \in 1..(Len(s) - Len(x) + 1) : SubSeq(s, i, i + Len(x) - 1) = x

NativeErrorsOf(p) ==
  CASE p = "linux" -> LErrors
    [] p = "macos" -> ApplicationErrors \cup NotificationErrors
    [] p = "windows" -> WErrors

\* `impl Display` / `impl Debug` of the native error type, applied to e.
NativeDisplay(e) == fmt.display
NativeDebug(e) == fmt.debug

\* `err.into()` / the conversion `?` performs: the From impl for e's type.
Into(e) ==
  CASE e.type = "LError" -> FromLError(e)
    [] e.type = "ApplicationError" -> FromApplicationError(e)
    [] e.type = "NotificationError" -> FromNotificationError(e)
    [] e.type = "WError" -> FromWError(e)

\* impl Display for MacOsError: both arms delegate to the native Display.
DisplayMacOsError(m) ==
  CASE m.variant = "AppErr" -> NativeDisplay(m.err)
    [] m.variant = "NotErr" -> NativeDisplay(m.err)

\* A mutant of DisplayErrorRepr: every arm formats with "{:?}".
DisplayErrorReprAllDebug(r) == NativeDebug(r.err)

\* impl Display for ErrorRepr: "{}" for Linux and MacOs, "{:?}" for Windows.
DisplayErrorRepr(r) ==
  CASE r.variant = "Linux" -> NativeDisplay(r.err)
    [] r.variant = "MacOs" -> DisplayMacOsError(r.err)
    [] r.variant = "Windows" -> NativeDebug(r.err)

\* impl Display for Error: self.0.fmt(fmt)
DisplayError(e) == DisplayErrorRepr(e.repr)

InitRender ==
  /\ platform \in Platforms
  /\ first = 1
  /\ CallsIdle
  /\ stage = "native"
  /\ native \in NativeErrorsOf(platform)
  /\ fmt \in [display : Texts, debug : Texts]
  /\ repr = None /\ error = None /\ text = None

unchangedByRender ==
  <<platform, first, callVars, shown, linuxVars, macVars, winVars, native, fmt>>

Convert ==
  /\ stage = "native"
  /\ repr' = Into(native)
  /\ stage' = "repr"
  /\ UNCHANGED <<unchangedByRender, error, text>>

Wrap ==
  /\ stage = "repr"
  /\ error' = MapErr(repr)
  /\ stage' = "error"
  /\ UNCHANGED <<unchangedByRender, repr, text>>

Format ==
  /\ stage = "error"
  /\ text' = DisplayError(error)
  /\ stage' = "text"
  /\ UNCHANGED <<unchangedByRender, repr, error>>

NextRender == Convert \/ Wrap \/ Format

SpecRender == InitRender /\ [][NextRender]_vars

\* ================================================================ claims

Done(c) == pc[c] = "done"
Entered(c) == pc[c] \notin {"idle", "setup"}

\* The notifications shown by invocation c.
ShownBy(c) == SelectSeq(shown, LAMBDA n : n.by = c)

\* The native calls invocation c made (everything after the setup entry).
NativeCalls(c) == IF trace[c] = << >> THEN << >> ELSE Tail(trace[c])

\* Some native call of invocation c did not succeed.
Failed(c) == \E i \in 1..Len(NativeCalls(c)) : NativeCalls(c)[i].outcome.tag # "ok"

\* How often invocation c made the call named k.
Count(c, k) == Cardinality({i \in 1..Len(trace[c]) : trace[c][i].call = k})

\* Notification n shows title t and body b.  A toast shows the text children
\* of its two text elements.
Carries(n, t, b) ==
  IF platform = "windows"
    THEN n.title = <<t>> /\ n.body = <<b>>
    ELSE n.title = t /\ n.body = b

\* C1: when every native call of an invocation succeeded, notify returned
\* Ok(()) and exactly one notification was shown by it, with the caller's
\* title as title and the caller's body as body.
C1_SuccessShowsOnce ==
  \A c \in Calls :
    (Done(c) /\ ~Failed(c)) =>
      /\ result[c] = Ok
      /\ Len(ShownBy(c)) = 1
      /\ Carries(ShownBy(c)[1], msg_title[c], msg_body[c])

C1_Witness ==
  \E c \in Calls :
    /\ platform = "windows" /\ Done(c) /\ ~Failed(c)
    /\ msg_title[c] # msg_body[c]
    /\ Len(ShownBy(c)) = 1

\* C2: an invocation in which a native call failed returned Err and showed
\* nothing; every finished invocation is either (Ok, one notification shown)
\* or (Err, nothing shown).
C2_FailureReturnsErr ==
  \A c \in Calls :
    Done(c) =>
      \/ ~Failed(c) /\ result[c].tag = "Ok" /\ Len(ShownBy(c)) = 1
      \/ Failed(c) /\ result[c].tag = "Err" /\ Len(ShownBy(c)) = 0

Written(c) == {a.loc : a \in {x \in touched[c] : x.mode = "write"}}
Accessed(c) == {a.loc : a \in touched[c]}

\* The part of C4 about one invocation: its result follows from its own native
\* calls, what it shows is its own title and body, nothing it acquired is held.
OutcomeIsOwn(c) ==
  Done(c) =>
    /\ handle[c] # "held"
    /\ (result[c].tag = "Ok") <=> ~Failed(c)
    /\ IF Failed(c)
         THEN Len(ShownBy(c)) = 0
         ELSE /\ Len(ShownBy(c)) = 1
              /\ Carries(ShownBy(c)[1], msg_title[c], msg_body[c])

\* C4 as stated: overlapping invocations do not influence each other: no
\* invocation reads or writes state that another one writes, on any backend,
\* and each one's outcome is its own.
C4_CallsShareNothing ==
  /\ \A c \in Calls : OutcomeIsOwn(c)
  /\ \A c, d \in Calls : c # d => Written(c) \cap Accessed(d) = {}

\* C4 as amended: on Linux and Windows no invocation touches process-wide
\* state.  On macOS every invocation writes the application identity of the
\* process and sends under whatever identity is installed at that moment; all
\* invocations install the identifier of the same host application, so each
\* notification is sent under that identifier.  On every backend each
\* invocation's outcome is its own and no handle is held once it has returned.
C4_OnlyAppIdentityShared ==
  /\ \A c \in Calls : OutcomeIsOwn(c)
  /\ platform # "macos" => \A c \in Calls : touched[c] = {}
  /\ platform = "macos" =>
       /\ \A c \in Calls : Accessed(c) \subseteq {"appIdentity"}
       /\ appIdentity \in {None, BundleIdentifier(HostApplication)}
       /\ \A i \in 1..Len(shown) : shown[i].app = BundleIdentifier(HostApplication)

C4_Witness ==
  /\ platform = "macos"
  /\ \A c \in Calls : Done(c) /\ result[c].tag = "Ok" /\ "appIdentity" \in Written(c)
  /\ Len(shown) = NumCalls

\* The native error inside a public Error, with the wrapping taken off.
Unwrapped(e) ==
  IF e.repr.variant = "MacOs" THEN e.repr.err.err ELSE e.repr.err

\* The backend variant of ErrorRepr (and the sub-kind of MacOsError) that
\* belongs to a native error type.
TagOf(e) ==
  CASE e.type = "LError" -> <<"Linux">>
    [] e.type = "ApplicationError" -> <<"MacOs", "AppErr">>
    [] e.type = "NotificationError" -> <<"MacOs", "NotErr">>
    [] e.type = "WError" -> <<"Windows">>

TagsOfError(e) ==
  IF e.repr.variant = "MacOs"
    THEN <<e.repr.variant, e.repr.err.variant>>
    ELSE <<e.repr.variant>>

\* native error -> backend variant -> public Error keeps the error and tags
\* it with its own backend.
ChainPreserves ==
  /\ stage \in {"error", "text"} =>
       /\ Unwrapped(error) = native
       /\ TagsOfError(error) = TagOf(native)
       /\ error.repr = repr

Occurrences(k) ==
  IF k \in {"item", "create_text_node", "query_interface", "append_child"} THEN 2 ELSE 1

\* No native call is repeated and a failed call is the last one made.
NoRetryNoStepAfterFailure(c) ==
  /\ \A i \in 1..Len(trace[c]) : Count(c, trace[c][i].call) <= Occurrences(trace[c][i].call)
  /\ \A i \in 1..Len(trace[c]) : trace[c][i].outcome.tag # "ok" => (i = Len(trace[c]) /\ Done(c))
  /\ Len(ShownBy(c)) <= 1

\* The failure of the last call of c reached the caller as a returned Err
\* that holds the native error.
FailurePropagated(c) ==
  LET last == trace[c][Len(trace[c])] IN
    /\ result[c].tag = "Err"
    /\ last.outcome.tag = "err"
    /\ Unwrapped(result[c].err) = last.outcome.err

\* C6: within one invocation no native call is attempted twice, nothing runs
\* after a failed call, show/send runs at most once, and the first failure
\* ends the invocation with that failure propagated to the caller.
C6_NoRetryFailurePropagated ==
  \A c \in Calls :
    /\ NoRetryNoStepAfterFailure(c)
    /\ (Done(c) /\ Failed(c)) => FailurePropagated(c)

\* The part of C6 that the code keeps on every backend.
NoRetry == \A c \in Calls : NoRetryNoStepAfterFailure(c)

\* C7: on Windows a failure at any step, an absent result included, makes
\* notify return Err holding the Windows backend error.
C7_WindowsFailureReturnsErr ==
  platform = "windows" =>
    \A c \in Calls :
      (Done(c) /\ Failed(c)) =>
        /\ result[c].tag = "Err"
        /\ result[c].err.repr.variant = "Windows"

\* C8: on macOS a failed bundle lookup or identity installation makes notify
\* return Err tagged AppErr, a failed send makes it return Err tagged NotErr.
C8_MacFailureReturnsTaggedErr ==
  platform = "macos" =>
    \A c \in Calls :
      (Done(c) /\ Failed(c)) =>
        LET last == trace[c][Len(trace[c])] IN
          /\ result[c].tag = "Err"
          /\ TagsOfError(result[c].err) =
               (IF last.call = "send_notification"
                  THEN <<"MacOs", "NotErr">> ELSE <<"MacOs", "AppErr">>)

\* C9: on Linux a finished invocation has built one notification with summary
\* = title and body = body and made exactly one show request for it; if show
\* failed with e the result is Err(Error(Linux(e))) and nothing was shown, if
\* it succeeded the result is Ok(()) and that notification was shown.
C9_LinuxShowOnce ==
  platform = "linux" =>
    \A c \in Calls :
      Done(c) =>
        LET last == trace[c][Len(trace[c])] IN
          /\ Count(c, "build") = 1 /\ Count(c, "show") = 1
          /\ notification[c] = [summary |-> msg_title[c], body |-> msg_body[c]]
          /\ last.call = "show"
          /\ last.args = <<msg_title[c], msg_body[c]>>
          /\ IF last.outcome.tag = "ok"
               THEN /\ result[c] = Ok
                    /\ ShownBy(c) = <<[by |-> c, title |-> msg_title[c], body |-> msg_body[c]]>>
               ELSE /\ result[c] = [tag |-> "Err",
                                    err |-> [struct |-> "Error",
                                             repr |-> [variant |-> "Linux", err |-> last.outcome.err]]]
                    /\ ShownBy(c) = << >>

C9_Witness ==
  /\ platform = "linux"
  /\ \E c, d \in Calls :
       /\ Done(c) /\ result[c].tag = "Err" /\ result[c].err.repr.err.code = NumErrs
       /\ Done(d) /\ result[d].tag = "Ok" /\ msg_title[d] # msg_body[d]

\* C10: on macOS the native calls of an invocation are, in this order, the
\* bundle lookup for "Script Editor", the installation of the identifier the
\* lookup gave, and the send with the caller's title and body and no subtitle
\* and no sound; a call is made only if all earlier ones succeeded.
C10_MacOrder ==
  platform = "macos" =>
    \A c \in Calls :
      LET n == NativeCalls(c) IN
        /\ Len(n) <= 3
        /\ \A i \in 1..Len(n) : i < Len(n) => n[i].outcome.tag = "ok"
        /\ Len(n) >= 1 =>
             n[1].call = "get_bundle_identifier" /\ n[1].args = <<"Script Editor">>
        /\ Len(n) >= 2 =>
             n[2].call = "set_application" /\ n[2].args = <<"com.apple.ScriptEditor2">>
        /\ Len(n) >= 3 =>
             /\ n[3].call = "send_notification"
             /\ n[3].args = <<msg_title[c], None, msg_body[c], None>>
        /\ (Done(c) /\ ~Failed(c)) => Len(n) = 3

C10_Witness ==
  /\ platform = "macos"
  /\ \E c, d \in Calls :
       /\ Done(c) /\ Len(NativeCalls(c)) = 3 /\ ~Failed(c) /\ msg_title[c] # msg_body[c]
       /\ Done(d) /\ Len(NativeCalls(d)) = 2 /\ Failed(d)

====
